---- MODULE Spec2Model ----
(***************************************************************************)
(* A model of nipy/fixes/scipy/stats/models/regression.py: the whitening   *)
(* regression models (OLSModel, ARModel, WLSModel), the Yule-Walker        *)
(* estimator and ARModel.iterative_fit.                                    *)
(*                                                                         *)
(* Numbers.  A float64 is modelled exactly as a fraction [n, d]:           *)
(*   d > 0  a finite value n/d in lowest terms,                            *)
(*   d = 0  the IEEE specials: n = 1 is +inf, n = -1 is -inf, n = 0 is NaN.*)
(* Arrays.  [ndim |-> 1, a |-> <<x1, ..>>] is a vector, [ndim |-> 2,       *)
(* a |-> <<row1, ..>>] a matrix whose rows are sequences of numbers.       *)
(* Designs are n x 1 matrices, for which the pseudo-inverse has a closed   *)
(* form.                                                                   *)
(* Identity.  world holds the arrays of a caller and of two ARModel        *)
(* instances by address, to tell binding an attribute to a new array from  *)
(* writing into an array that several holders share.                       *)
(***************************************************************************)
EXTENDS Integers, Sequences, FiniteSets, TLC

VARIABLES model, ret, it, world

vars == <<model, ret, it, world>>

(***************************  bounds of the model  *************************)
\* largest number of observations (rows) of a design and its responses
MaxN == 2
\* largest niter the caller passes explicitly
MaxIter == 2
\* largest AR order of the models that are fitted
MaxOrder == 1
\* largest number of rows of an array that is whitened
MaxLen == 4
\* largest AR order of the models that whiten
MaxLag == 2
\* largest length of a sequence given to yule_walker, and largest order
MaxSeq == 3
MaxYWOrder == 2
\* largest number of rows of the design two AR models are built from
MaxPairRows == 2

(*****************************  float64 values  ****************************)
Abs(x) == IF x < 0 THEN -x ELSE x

Sign(x) == IF x > 0 THEN 1 ELSE IF x < 0 THEN -1 ELSE 0

RECURSIVE GCD(_, _)
GCD(a, b) == IF b = 0 THEN a ELSE GCD(b, a % b)

\* the float64 n/d, d of either sign; x/0 is +-inf and 0/0 is NaN
Frac(n, d) ==
    IF d = 0 THEN [n |-> Sign(n), d |-> 0]
    ELSE LET g == GCD(Abs(n), Abs(d))
         IN  [n |-> (Sign(d) * n) \div g, d |-> Abs(d) \div g]

\* np.asarray(x, np.float64) of an integer
F(x) == [n |-> x, d |-> 1]

NaN == [n |-> 0, d |-> 0]

IsNaN(x) == x.d = 0 /\ x.n = 0

IsFinite(x) == x.d > 0

\* a/b * c/d, the common factors of a, d and of c, b cancelled first
Ratio(a, b, c, d) ==
    LET g == GCD(Abs(a), Abs(d))
        h == GCD(Abs(c), Abs(b))
    IN  IF g = 0 \/ h = 0 THEN Frac(a * c, b * d)
        ELSE Frac((a \div g) * (c \div h), (b \div h) * (d \div g))

FMul(x, y) == Ratio(x.n, x.d, y.n, y.d)

FDiv(x, y) == Ratio(x.n, x.d, y.d, y.n)

FNeg(x) == [n |-> -x.n, d |-> x.d]

FAdd(x, y) ==
    IF x.d = 0 /\ y.d = 0
    THEN (IF x.n = y.n THEN x ELSE NaN)
    ELSE IF x.d = 0 \/ y.d = 0
    THEN Frac(x.n * y.d + y.n * x.d, 0)
    ELSE LET g == GCD(x.d, y.d)
         IN  Frac(x.n * (y.d \div g) + y.n * (x.d \div g), (x.d \div g) * y.d)

FSub(x, y) == FAdd(x, FNeg(y))

\* np.sqrt of an integer weight: exact on the perfect squares, NaN below zero
FSqrtInt(w) ==
    IF w < 0 THEN NaN
    ELSE F(CHOOSE r \in 0..w : r * r = w)

(********************************  arrays  *********************************)
Vec(s) == [ndim |-> 1, a |-> s]

Mat(rows) == [ndim |-> 2, a |-> rows]

\* np.asarray(X, np.float64) of an integer array
AsFloat(X) ==
    IF X.ndim = 1
    THEN Vec([i \in 1..Len(X.a) |-> F(X.a[i])])
    ELSE Mat([i \in 1..Len(X.a) |-> [j \in 1..Len(X.a[i]) |-> F(X.a[i][j])]])

NRows(X) == Len(X.a)

RECURSIVE FSum(_)
FSum(s) == IF s = <<>> THEN F(0) ELSE FAdd(s[1], FSum(Tail(s)))

\* scipy.stats.stats.ss of a vector: the sum of squares
ss(v) == FSum([i \in 1..Len(v) |-> FMul(v[i], v[i])])

\* np.dot of two sequences of numbers
Dot(u, v) == FSum([i \in 1..Len(u) |-> FMul(u[i], v[i])])

\* np.dot(M, v) of a matrix (sequence of rows) and a sequence of numbers
MatVec(rows, v) == [i \in 1..Len(rows) |-> Dot(rows[i], v)]

(******************************  whitening  ********************************)
\* OLSModel.whiten: returns its argument itself
OLSModel_whiten(Y) == [val |-> Y, X |-> Y]

\* row - c * other, for an element of a vector or a row of a matrix
RowAxpy(ndim, row, c, other) ==
    IF ndim = 1 THEN FSub(row, FMul(c, other))
    ELSE [j \in 1..Len(row) |-> FSub(row[j], FMul(c, other[j]))]

\* a whitening that works on X itself, without the copy
ARWhitenStart_NoCopy(Xa) == [X |-> Xa, out |-> Xa, shared |-> TRUE]

\* X = np.asarray(X, np.float64); _X = X.copy(): the two arrays the loop of
\* ARModel.whiten works on; shared tells whether they are one array
ARWhitenStart(Xa) == [X |-> Xa, out |-> Xa, shared |-> FALSE]

\* one pass of the loop of ARModel.whiten, i counted from 0:
\*   _X[(i+1):] = _X[(i+1):] - self.rho[i] * X[0:-(i+1)]
\* (both slices are empty when i+1 >= n; the right side is evaluated in full
\* before the assignment)
ARWhitenPass(rho, i, ndim, st) ==
    LET new == [j \in 1..Len(st.out) |->
                   IF j > i + 1
                   THEN RowAxpy(ndim, st.out[j], rho[i + 1], st.X[j - (i + 1)])
                   ELSE st.out[j]]
    IN  [st EXCEPT !.out = new, !.X = IF st.shared THEN new ELSE @]

RECURSIVE ARWhitenLoop(_, _, _, _, _)
ARWhitenLoop(rho, order, i, ndim, st) ==
    IF i >= order THEN st
    ELSE ARWhitenLoop(rho, order, i + 1, ndim, ARWhitenPass(rho, i, ndim, st))

\* ARModel.whiten(X), X already float64: val is the returned array _X, X the
\* argument array after the call
ARModel_whiten(rho, order, X) ==
    LET st == ARWhitenLoop(rho, order, 0, X.ndim, ARWhitenStart(X.a))
    IN  [val |-> [ndim |-> X.ndim, a |-> st.out], X |-> [ndim |-> X.ndim, a |-> st.X]]

\* the weights themselves, without the square root
SqrtWeights_NoSqrt(weights, n) ==
    IF weights.scalar THEN [i \in 1..n |-> F(weights.w[1])]
    ELSE [i \in 1..n |-> F(weights.w[i])]

\* np.sqrt(self.weights) as it multiplies the n rows; weights.w holds the
\* elements of the weights, a single one for a scalar
SqrtWeights(weights, n) ==
    IF weights.scalar THEN [i \in 1..n |-> FSqrtInt(weights.w[1])]
    ELSE [i \in 1..n |-> FSqrtInt(weights.w[i])]

\* WLSModel.whiten(X), X already float64
WLSModel_whiten(weights, X) ==
    LET c == SqrtWeights(weights, NRows(X))
    IN  [val |-> IF X.ndim = 1
                 THEN Vec([i \in 1..NRows(X) |-> FMul(X.a[i], c[i])])
                 ELSE Mat([i \in 1..NRows(X) |->
                             [j \in 1..Len(X.a[i]) |-> FMul(X.a[i][j], c[i])]]),
         X   |-> X]

\* self.whiten(X): dispatch on the class of the model; val is what it returns
whiten(m, X) ==
    CASE m.kind = "AR"  -> ARModel_whiten(m.rho, m.order, X)
      [] m.kind = "WLS" -> WLSModel_whiten(m.weights, X)
      [] OTHER          -> OLSModel_whiten(X)

(***************************  derived matrices  ****************************)
\* the single column of an n x 1 matrix
Column(M) == [i \in 1..NRows(M) |-> M.a[i][1]]

HasNaN(v) == \E i \in 1..Len(v) : ~IsFinite(v[i])

\* utils.rank of an n x 1 design
rank(M) == IF \A i \in 1..NRows(M) : M.a[i][1].n = 0 THEN 0 ELSE 1

\* np.linalg.pinv of a finite n x 1 matrix: the 1 x n matrix w'/(w.w), 0 if w = 0
pinv(M) ==
    LET w == Column(M)
        s == ss(w)
    IN  Mat(<< [i \in 1..Len(w) |-> IF s.n = 0 THEN F(0) ELSE FDiv(w[i], s)] >>)

\* the outcomes of np.linalg.pinv: on a matrix holding NaN the SVD either
\* fails to converge (LinAlgError) or returns NaN, depending on the LAPACK build
PinvOutcomes(M) ==
    IF HasNaN(Column(M))
    THEN { [raised |-> TRUE,  val |-> Mat(<< <<>> >>)],
           [raised |-> FALSE, val |-> Mat(<< [i \in 1..NRows(M) |-> NaN] >>)] }
    ELSE { [raised |-> FALSE, val |-> pinv(M)] }

\* OLSModel.initialize(self): the models it can leave, or a raised LinAlgError
OLSModel_initialize(m) ==
    LET wd == whiten(m, m.exog).val
    IN  { IF o.raised
          THEN [raised |-> TRUE, exc |-> "LinAlgError", m |-> [m EXCEPT !.wdesign = wd]]
          ELSE [raised |-> FALSE, exc |-> "",
                m |-> [m EXCEPT !.wdesign = wd,
                                !.calc_theta = o.val,
                                !.normalized_cov_beta =
                                     Dot(o.val.a[1], o.val.a[1]),
                                !.df_resid = NRows(wd) - rank(m.exog),
                                !.df_model = rank(m.exog) - 1]]
          : o \in PinvOutcomes(wd) }

(**********************************  fit  **********************************)
\* The outcomes of the division (nobs - 1)/(nobs - df_model - 1) of
\* OLSModel._summary.  nobs is a Python float; when utils.rank returns a Python
\* int the zero divisor raises ZeroDivisionError, when it returns a numpy
\* integer the quotient is inf or NaN and _summary goes on.
SummaryOutcomes(nobs, df_model) ==
    IF nobs - df_model - 1 = 0
    THEN { [raised |-> TRUE, exc |-> "ZeroDivisionError"],
           [raised |-> FALSE, exc |-> ""] }
    ELSE { [raised |-> FALSE, exc |-> ""] }

\* OLSModel.fit(self, Y) up to the call of _summary: the RegressionResults
OLSModel_fit_lfit(m, Y) ==
    LET Z     == whiten(m, AsFloat(Y)).val
        theta == MatVec(m.calc_theta.a, Z.a)
        resid == [i \in 1..NRows(Z) |->
                     FSub(Z.a[i], Dot(m.wdesign.a[i], theta))]
    IN  [theta    |-> theta,
         predict  |-> MatVec(m.exog.a, theta),
         resid    |-> resid,
         scale    |-> FDiv(ss(resid), F(m.df_resid)),
         df_resid |-> m.df_resid,
         df_model |-> m.df_model,
         Z        |-> Z.a]

\* OLSModel.fit(self, Y): returns lfit unless _summary raises
OLSModel_fit(m, Y) ==
    { [raised |-> o.raised, exc |-> o.exc, lfit |-> OLSModel_fit_lfit(m, Y)]
      : o \in SummaryOutcomes(NRows(m.wdesign), m.df_model) }

(******************************  yule_walker  ******************************)
\* str(method).lower() on the method names the callers pass
Lower(s) ==
    CASE s = "MLE"      -> "mle"
      [] s = "Unbiased" -> "unbiased"
      [] OTHER          -> s

\* every element of a float array, as one sequence
RECURSIVE Flatten(_)
Flatten(rows) == IF rows = <<>> THEN <<>> ELSE rows[1] \o Flatten(Tail(rows))

Elements(X) == IF X.ndim = 1 THEN X.a ELSE Flatten(X.a)

\* X.mean()
Mean(X) == FDiv(FSum(Elements(X)), F(Len(Elements(X))))

\* X -= X.mean()
Demean(X) ==
    LET mu == Mean(X)
    IN  IF X.ndim = 1
        THEN Vec([i \in 1..NRows(X) |-> FSub(X.a[i], mu)])
        ELSE Mat([i \in 1..NRows(X) |->
                    [j \in 1..Len(X.a[i]) |-> FSub(X.a[i][j], mu)]])

\* a denominator that ignores the method
Denom_AlwaysN(method, n, k) == n

\* denom(k) of yule_walker
Denom(method, n, k) == IF method = "unbiased" THEN n - k ELSE n

\* r[k] = (X[0:-k] * X[k:]).sum() / denom(k); r[0] = (X**2).sum() / denom(0)
Autocov(x, method, n, k) ==
    FDiv(FSum([i \in 1..(Len(x) - k) |-> FMul(x[i], x[i + k])]),
         F(Denom(method, n, k)))

\* scipy.linalg.toeplitz(r[:-1]): R[i][j] = r[|i - j|], r indexed from 0
Toeplitz(r, p) == [i \in 1..p |-> [j \in 1..p |-> r[Abs(i - j) + 1]]]

\* the matrix without row 1 and column c
Minor(M, c) ==
    [i \in 1..(Len(M) - 1) |->
        [j \in 1..(Len(M) - 1) |-> M[i + 1][IF j < c THEN j ELSE j + 1]]]

RECURSIVE Det(_)
Det(M) ==
    IF Len(M) = 0 THEN F(1)
    ELSE IF Len(M) = 1 THEN M[1][1]
    ELSE FSum([c \in 1..Len(M) |->
                 FMul(IF c % 2 = 1 THEN M[1][c] ELSE FNeg(M[1][c]),
                      Det(Minor(M, c)))])

\* the matrix with column c replaced by b
ReplaceColumn(M, c, b) ==
    [i \in 1..Len(M) |-> [j \in 1..Len(M) |-> IF j = c THEN b[i] ELSE M[i][j]]]

\* np.linalg.solve(R, b) of a nonsingular R, by Cramer's rule
Solve(R, b) ==
    [c \in 1..Len(R) |-> FDiv(Det(ReplaceColumn(R, c, b)), Det(R))]

\* np.sqrt(sigmasq): the root is kept as its square; NaN below zero
Sqrt(q) ==
    IF ~IsFinite(q) \/ q.n < 0
    THEN [nan |-> TRUE, sq |-> NaN]
    ELSE [nan |-> FALSE, sq |-> q]

NoSigma == [nan |-> FALSE, sq |-> F(0)]

\* yule_walker(X, order, method, df).  X holds the values of
\* np.asarray(X, np.float64), with f64 telling whether the caller's X is already a float64 ndarray, which
\* np.asarray returns uncopied.  df = 0 stands for df=None (n = df or X.shape[0]).
\* callerX is the caller's array after the call; est tells whether r, rho and
\* sigmasq were computed.
yule_walker(X, f64, order, method, df) ==
    LET meth  == Lower(method)
        Xd    == Demean(X)
        after == IF f64 THEN Xd ELSE X
        n     == IF df # 0 THEN df ELSE NRows(X)
        r     == [k \in 1..(order + 1) |-> Autocov(Xd.a, meth, n, k - 1)]
        R     == Toeplitz(r, order)
        b     == [k \in 1..order |-> r[k + 1]]
        rho   == Solve(R, b)
        sigmasq == FSub(r[1], Dot(b, rho))
    IN  IF meth \notin {"unbiased", "mle"}
        THEN [raised |-> TRUE, exc |-> "ValueError: method", est |-> FALSE,
              r |-> <<>>,
              rho |-> <<>>, sigmasq |-> NaN, sigma |-> NoSigma, callerX |-> X]
        ELSE IF X.ndim # 1
        THEN [raised |-> TRUE, exc |-> "ValueError: vector", est |-> FALSE,
              r |-> <<>>,
              rho |-> <<>>, sigmasq |-> NaN, sigma |-> NoSigma, callerX |-> after]
        ELSE IF Det(R).n = 0
        THEN [raised |-> TRUE, exc |-> "LinAlgError", est |-> FALSE,
              r |-> <<>>,
              rho |-> <<>>, sigmasq |-> NaN, sigma |-> NoSigma, callerX |-> after]
        ELSE [raised |-> FALSE, exc |-> "", est |-> TRUE, r |-> r,
              rho |-> rho, sigmasq |-> sigmasq, sigma |-> Sqrt(sigmasq),
              callerX |-> after]

(*****************************  constructors  ******************************)
NoModel ==
    [kind |-> "none", exog |-> Mat(<<>>), rho |-> <<>>, order |-> 0,
     weights |-> [scalar |-> TRUE, w |-> <<1>>],
     wdesign |-> Mat(<<>>), calc_theta |-> Mat(<<>>),
     normalized_cov_beta |-> F(0), df_resid |-> 0, df_model |-> 0]

\* LikelihoodModel.__init__ as the constructors of this file reach it: the
\* model keeps the design matrix it is given
Model_init(kind, design) == [NoModel EXCEPT !.kind = kind, !.exog = AsFloat(design)]

\* OLSModel.__init__: the base constructor, then self.initialize()
OLSModel_init(m) == OLSModel_initialize(m)

\* ARModel.__init__(design, rho).  rho is [int |-> TRUE, order |-> p] for a
\* Python int, [int |-> FALSE, v |-> <<..>>] for a vector of coefficients.
ARModel_init(design, rho) ==
    LET order == IF rho.int THEN rho.order ELSE Len(rho.v)
        coef  == IF rho.int THEN [k \in 1..order |-> F(0)]
                 ELSE [k \in 1..order |-> F(rho.v[k])]
    IN  OLSModel_init([Model_init("AR", design) EXCEPT !.order = order, !.rho = coef])

\* the number of elements of an array of the given shape
RECURSIVE Size(_)
Size(shape) == IF shape = <<>> THEN 1 ELSE shape[1] * Size(Tail(shape))

\* a test of the size alone
WeightsAccepted_SizeOnly(shape, design_rows) ==
    \/ shape = <<>>
    \/ Size(shape) = design_rows

\* The test of WLSModel.__init__ on weights = np.array(weights): a scalar
\* (shape ()) passes; any other array passes when its first dimension and its
\* size both equal the number of design rows.
WeightsAccepted(shape, design_rows) ==
    \/ shape = <<>>
    \/ shape[1] = design_rows /\ Size(shape) = design_rows

\* WLSModel.__init__(endog, exog, weights); weights is [shape, w], w the flat
\* sequence of the elements
WLSModel_init(exog, weights) ==
    IF ~WeightsAccepted(weights.shape, Len(exog.a))
    THEN { [raised |-> TRUE, exc |-> "ValueError: weights", m |-> NoModel] }
    ELSE OLSModel_init([Model_init("WLS", exog) EXCEPT
                           !.weights = [scalar |-> weights.shape = <<>>,
                                        w      |-> weights.w]])

(*****************************  iterative_fit  *****************************)
\* niter=3 in the signature of ARModel.iterative_fit
DefaultNiter == 3

\* the parameters of OLSModel.initialize besides self
InitializeParams == 0

\* the arguments of the call self.initialize(self.design) in iterative_fit
InitializeArgs == 1

\* self.design and self.df, read by iterative_fit: the design matrix and the
\* residual degrees of freedom of the model
Model_design(m) == m.exog

Model_df(m) == m.df_resid

NoResults == [has |-> FALSE]

\* Y - results.predict, a new float64 array
Residual(Y, predict) == Vec([i \in 1..NRows(Y) |-> FSub(F(Y.a[i]), predict[i])])

\* the third statement of the loop body, after a fit that returned lfit:
\*   self.rho, _ = yule_walker(Y - results.predict, order=self.order, df=self.df)
BodyYuleWalker(m, Y, lfit, consistent) ==
    LET yw == yule_walker(Residual(Y, lfit.predict), TRUE, m.order,
                          "unbiased", Model_df(m))
    IN  [raised |-> yw.raised, exc |-> yw.exc,
         m |-> IF yw.raised THEN m ELSE [m EXCEPT !.rho = yw.rho],
         inits |-> 1, fits |-> 1, consistent |-> consistent,
         results |-> [has |-> TRUE, lfit |-> lfit]]

\* the second statement of the loop body, on the re-initialized model:
\*   results = self.fit(Y)
BodyFit(m, Y) ==
    LET consistent == m.wdesign = whiten(m, m.exog).val
    IN  { IF o.raised
          THEN [raised |-> TRUE, exc |-> o.exc, m |-> m, inits |-> 1,
                fits |-> 0, consistent |-> TRUE, results |-> NoResults]
          ELSE BodyYuleWalker(m, Y, o.lfit, consistent)
          : o \in OLSModel_fit(m, Y) }

\* One pass of the body of the loop of iterative_fit, with the exceptions
\* propagating.  The first statement, self.initialize(self.design), is a call
\* of OLSModel.initialize(self) with one argument too many: a TypeError.
IterBodyOutcomes(m, Y) ==
    IF InitializeArgs # InitializeParams
    THEN { [raised |-> TRUE, exc |-> "TypeError", m |-> m, inits |-> 0,
            fits |-> 0, consistent |-> TRUE, results |-> NoResults] }
    ELSE UNION { IF o.raised
                 THEN { [raised |-> TRUE, exc |-> o.exc, m |-> o.m, inits |-> 0,
                         fits |-> 0, consistent |-> TRUE, results |-> NoResults] }
                 ELSE BodyFit(o.m, Y)
                 : o \in OLSModel_initialize(m) }

\* a loop that goes on after an exception
AfterBody_Swallow(raised) == "head"

\* where the loop goes after a pass of its body: no try/except in iterative_fit
AfterBody(raised) == IF raised THEN "raised" ELSE "head"

ItIdle ==
    [pc |-> "idle", Y |-> Vec(<<>>), niter |-> 0, i |-> 0, entered |-> 0,
     done |-> 0, inits |-> 0, fits |-> 0, failures |-> 0, consistent |-> TRUE,
     exc |-> "", rho0 |-> <<>>, rho_done |-> <<>>, results |-> NoResults]

(**********************  two models and their arrays  **********************)
\* Arrays by identity.  heap maps the address of an array to its contents; a
\* model instance holds, for each of its array attributes, the address of the
\* array it is bound to.  Binding an attribute to a new array changes the
\* address the instance holds; writing into an array changes the heap, for
\* every holder of the address.
Instances == {"A", "B"}

Other(who) == IF who = "A" THEN "B" ELSE "A"

\* an array the caller made
Caller(name) == <<"caller", name>>

\* one array per attribute, whichever instance made it
Own_Shared(who, attr) == <<"A", attr>>

\* the array an instance made last for one of its attributes
Own(who, attr) == <<who, attr>>

Addrs ==
    { Caller(name) : name \in {"design", "design2", "rho"} }
    \cup { Own(who, attr) : who \in Instances,
           attr \in {"rho", "wdesign", "calc_theta", "normalized_cov_beta"} }

NoRefs ==
    [exog |-> Caller("design"), rho |-> Caller("rho"),
     wdesign |-> Caller("design"), calc_theta |-> Caller("design"),
     normalized_cov_beta |-> Caller("rho"),
     order |-> 0, df_resid |-> 0, df_model |-> 0]

NoWorld ==
    [built |-> FALSE, same |-> [design |-> FALSE, rho |-> FALSE],
     heap |-> [a \in Addrs |-> <<>>], A |-> NoRefs, B |-> NoRefs]

\* the instance as the methods read it: every attribute through its address
Deref(w, who) ==
    [NoModel EXCEPT !.kind = "AR",
                    !.exog = w.heap[w[who].exog],
                    !.rho = w.heap[w[who].rho],
                    !.order = w[who].order,
                    !.wdesign = w.heap[w[who].wdesign],
                    !.calc_theta = w.heap[w[who].calc_theta],
                    !.normalized_cov_beta = w.heap[w[who].normalized_cov_beta],
                    !.df_resid = w[who].df_resid,
                    !.df_model = w[who].df_model]

\* self.attr = <the array at addr, holding value>
Bind(w, who, attr, addr, value) ==
    [w EXCEPT !.heap[addr] = value, ![who][attr] = addr]

\* OLSModel.initialize on an AR instance.  self.whiten(self._exog) returns _X:
\* a new array when ARModel.whiten copies its argument, the design array
\* itself, written in place, when X and _X are one array.  pinv and np.dot
\* return new arrays.
Heap_initialize(w, who) ==
    LET m      == Deref(w, who)
        wdAddr == IF ARWhitenStart(m.exog.a).shared THEN w[who].exog
                  ELSE Own(who, "wdesign")
    IN  { LET w1 == Bind(w, who, "wdesign", wdAddr, o.m.wdesign)
              w2 == Bind(w1, who, "calc_theta", Own(who, "calc_theta"),
                         o.m.calc_theta)
              w3 == Bind(w2, who, "normalized_cov_beta",
                         Own(who, "normalized_cov_beta"), o.m.normalized_cov_beta)
          IN  [raised |-> o.raised, exc |-> o.exc,
               w |-> IF o.raised THEN w1
                     ELSE [w3 EXCEPT ![who].df_resid = o.m.df_resid,
                                     ![who].df_model = o.m.df_model]]
          : o \in OLSModel_initialize(m) }

\* ARModel.__init__(design, rho) of instance who; design is the address of the
\* caller's design array, which the base constructor keeps.  An int rho gives
\* np.zeros(order), a new array; a rho that is an ndarray (rho.array) is kept
\* by np.squeeze(np.asarray(rho)), a view of the caller's array at rhoAddr;
\* any other sequence is converted by np.asarray to a new array.
Heap_ARModel_init(w, who, design, rho, rhoAddr) ==
    LET order == IF rho.int THEN rho.order ELSE Len(rho.v)
        coef  == IF rho.int THEN [k \in 1..order |-> F(0)]
                 ELSE [k \in 1..order |-> F(rho.v[k])]
        w1    == IF ~rho.int /\ rho.array
                 THEN [w EXCEPT ![who].rho = rhoAddr]
                 ELSE Bind(w, who, "rho", Own(who, "rho"), coef)
        w2    == [w1 EXCEPT ![who].order = order, ![who].exog = design]
    IN  Heap_initialize(w2, who)

\* model.rho = <a new array of the coefficients coef>, as in the example of
\* the docstring of ARModel
Heap_SetRho(w, who, coef) ==
    Bind(w, who, "rho", Own(who, "rho"), [k \in 1..Len(coef) |-> F(coef[k])])

\* OLSModel.fit(Y): it assigns no attribute of self
Heap_fit(w, who, Y) ==
    { [raised |-> o.raised, exc |-> o.exc, w |-> w]
      : o \in OLSModel_fit(Deref(w, who), Y) }

\* one pass of the body of the loop of iterative_fit: self.initialize(..),
\* then fit, then self.rho bound to the new array yule_walker returns
Heap_IterBody(w, who, Y) ==
    IF InitializeArgs # InitializeParams
    THEN { [raised |-> TRUE, exc |-> "TypeError", w |-> w] }
    ELSE UNION { IF i.raised THEN { i }
                 ELSE { [raised |-> b.raised, exc |-> b.exc,
                         w |-> IF b.raised THEN i.w
                               ELSE Bind(i.w, who, "rho", Own(who, "rho"), b.m.rho)]
                        : b \in BodyFit(Deref(i.w, who), Y) }
                 : i \in Heap_initialize(w, who) }

\* ARModel.iterative_fit(Y, niter), from pass i on
RECURSIVE Heap_iterative_fit(_, _, _, _, _)
Heap_iterative_fit(w, who, Y, niter, i) ==
    IF i >= niter THEN { [raised |-> FALSE, exc |-> "", w |-> w] }
    ELSE UNION { IF o.raised THEN { o }
                 ELSE Heap_iterative_fit(o.w, who, Y, niter, i + 1)
                 : o \in Heap_IterBody(w, who, Y) }

\* the attributes of an instance a caller can read, by value
View(w, who) ==
    [rho                 |-> w.heap[w[who].rho],
     wdesign             |-> w.heap[w[who].wdesign],
     calc_theta          |-> w.heap[w[who].calc_theta],
     normalized_cov_beta |-> w.heap[w[who].normalized_cov_beta]]

(********************************  inputs  *********************************)
DesignVals == {0, 1}

RespVals == {0, 1, 2}

RhoVals == {-1, 0, 1}

\* the n x 1 designs
Designs == UNION { { Mat([i \in 1..n |-> <<c[i]>>]) : c \in [1..n -> DesignVals] }
                   : n \in 1..MaxN }

\* the responses of n observations
Responses(n) == { Vec(y) : y \in [1..n -> RespVals] }

\* the rho argument of ARModel: an order, or a vector of coefficients
RhoArgs ==
    { [int |-> TRUE, order |-> p, v |-> <<>>] : p \in 0..MaxOrder }
    \cup UNION { { [int |-> FALSE, order |-> p, v |-> c] : c \in [1..p -> RhoVals] }
                 : p \in 1..MaxOrder }

\* the weights argument of WLSModel: a scalar, a vector, a column, a row
WeightArgs ==
    { [shape |-> <<>>, w |-> <<w>>] : w \in {-1, 0, 1, 4} }
    \cup UNION { { [shape |-> sh, w |-> w] :
                     sh \in {<<n>>, <<n, 1>>, <<1, n>>}, w \in [1..n -> {1, 4}] }
                 : n \in 1..MaxN }

(*******************************  the caller  ******************************)
NoRet == [op |-> "none", raised |-> FALSE, exc |-> "", arg |-> <<>>, val |-> <<>>]

\* the caller is between two calls
Ready == ret.op = "none" /\ it.pc = "idle"

Init == model = NoModel /\ ret = NoRet /\ it = ItIdle /\ world = NoWorld

\* model = OLSModel(endog, design)
NewOLSModel ==
    /\ Ready
    /\ \E d \in Designs : \E o \in OLSModel_init(Model_init("OLS", d)) :
         /\ model' = IF o.raised THEN model ELSE o.m
         /\ ret' = [op |-> "OLSModel", raised |-> o.raised, exc |-> o.exc,
                    arg |-> d, val |-> <<>>]
    /\ UNCHANGED <<it, world>>

\* model = ARModel(design, rho)
NewARModel ==
    /\ Ready
    /\ \E d \in Designs, r \in RhoArgs : \E o \in ARModel_init(d, r) :
         /\ model' = IF o.raised THEN model ELSE o.m
         /\ ret' = [op |-> "ARModel", raised |-> o.raised, exc |-> o.exc,
                    arg |-> <<d, r>>, val |-> <<>>]
    /\ UNCHANGED <<it, world>>

\* model = WLSModel(endog, design, weights)
NewWLSModel ==
    /\ Ready
    /\ \E d \in Designs, w \in WeightArgs : \E o \in WLSModel_init(d, w) :
         /\ model' = IF o.raised THEN model ELSE o.m
         /\ ret' = [op |-> "WLSModel", raised |-> o.raised, exc |-> o.exc,
                    arg |-> [design |-> d, weights |-> w],
                    val |-> [before |-> model, after |-> model']]
    /\ UNCHANGED <<it, world>>

\* model.rho = np.array([...]) with as many coefficients as the order
SetRho ==
    /\ Ready
    /\ model.kind = "AR"
    /\ \E c \in [1..model.order -> RhoVals] :
         /\ [k \in 1..model.order |-> F(c[k])] # model.rho
         /\ model' = [model EXCEPT !.rho = [k \in 1..model.order |-> F(c[k])]]
    /\ UNCHANGED <<ret, it, world>>

\* model.initialize()
InitializeCall ==
    /\ Ready
    /\ model.kind # "none"
    /\ \E o \in OLSModel_initialize(model) :
         /\ model' = o.m
         /\ ret' = [op |-> "initialize", raised |-> o.raised, exc |-> o.exc,
                    arg |-> <<>>, val |-> <<>>]
    /\ UNCHANGED <<it, world>>

\* results = model.fit(Y)
FitCall ==
    /\ Ready
    /\ model.kind # "none"
    /\ \E Y \in Responses(NRows(model.exog)) : \E o \in OLSModel_fit(model, Y) :
         ret' = [op |-> "fit", raised |-> o.raised, exc |-> o.exc,
                 arg |-> Y, val |-> o.lfit]
    /\ UNCHANGED <<model, it, world>>

\* model.iterative_fit(Y) or model.iterative_fit(Y, niter): the call
IterativeFitCall ==
    /\ Ready
    /\ model.kind = "AR"
    /\ \E Y \in Responses(NRows(model.exog)), niter \in (0..MaxIter) \cup {DefaultNiter} :
         it' = [ItIdle EXCEPT !.pc = "head", !.Y = Y, !.niter = niter,
                              !.rho0 = model.rho, !.rho_done = model.rho]
    /\ UNCHANGED <<model, ret, world>>

\* for i in range(niter): the test of the loop
IterHead ==
    /\ it.pc = "head"
    /\ it' = [it EXCEPT !.pc = IF it.i < it.niter THEN "body" ELSE "returned"]
    /\ UNCHANGED <<model, ret, world>>

\* one pass of the loop body
IterBody ==
    /\ it.pc = "body"
    /\ \E o \in IterBodyOutcomes(model, it.Y) :
         /\ model' = o.m
         /\ it' = [it EXCEPT !.pc = AfterBody(o.raised),
                             !.exc = o.exc,
                             !.entered = @ + 1,
                             !.i = IF o.raised THEN @ ELSE @ + 1,
                             !.done = IF o.raised THEN @ ELSE @ + 1,
                             !.inits = @ + o.inits,
                             !.fits = @ + o.fits,
                             !.failures = IF o.raised THEN @ + 1 ELSE @,
                             !.consistent = @ /\ o.consistent,
                             !.rho_done = IF o.raised THEN @ ELSE o.m.rho,
                             !.results = IF o.results.has THEN o.results ELSE @]
    /\ UNCHANGED <<ret, world>>

\* the caller takes the result of the call (or its exception) and goes on
Resume ==
    /\ \/ ret.op # "none"
       \/ it.pc \in {"returned", "raised"}
    /\ ret' = NoRet
    /\ it' = ItIdle
    /\ UNCHANGED <<model, world>>

Next ==
    \/ NewOLSModel
    \/ NewARModel
    \/ NewWLSModel
    \/ SetRho
    \/ InitializeCall
    \/ FitCall
    \/ IterativeFitCall
    \/ IterHead
    \/ IterBody
    \/ Resume

Spec == Init /\ [][Next]_vars

(***********************  whitening, called directly  **********************)
LagVals == {-1, 1, 2}

XVals == {-1, 1, 2}

MatVals == {1, 2}

\* a design of n rows: the intercept column
Ones(n) == Mat([i \in 1..n |-> <<1>>])

\* the AR and WLS models the whitening is called on
WhitenModels ==
    { o.m : o \in { oo \in UNION { UNION { ARModel_init(Ones(n),
                                        [int |-> FALSE, order |-> p, v |-> c])
                                           : c \in [1..p -> LagVals] }
                                   : n \in 1..MaxLen, p \in 0..MaxLag }
                           \cup UNION { WLSModel_init(Ones(n), w) : 
                                        n \in 1..MaxLen,
                                        w \in { [shape |-> <<>>, w |-> <<x>>] : x \in {-1, 0, 1, 4} }
                                              \cup { [shape |-> <<Len(x)>>, w |-> x] :
                                                     x \in UNION { [1..k -> {1, 4}] : k \in 1..MaxLen } } }
                    : ~oo.raised } }

\* the arrays of n rows given to whiten: responses and two-column matrices
WhitenVectors(n) == { Vec(x) : x \in [1..n -> XVals] }

WhitenMatrices(n) == { Mat(x) : x \in [1..n -> [1..2 -> MatVals]] }

InitWhiten ==
    model \in WhitenModels /\ ret = NoRet /\ it = ItIdle /\ world = NoWorld

\* W = model.whiten(X)
WhitenOf(X) ==
    /\ ret' = [op |-> "whiten", raised |-> FALSE, exc |-> "",
               arg |-> X, val |-> whiten(model, AsFloat(X))]
    /\ UNCHANGED <<model, it, world>>

WhitenCall ==
    /\ Ready
    /\ \/ \E X \in WhitenVectors(NRows(model.exog)) : WhitenOf(X)
       \/ \E X \in WhitenMatrices(NRows(model.exog)) : WhitenOf(X)

NextWhiten ==
    \/ WhitenCall
    \/ Resume

SpecWhiten == InitWhiten /\ [][NextWhiten]_vars

(**********************  yule_walker, called directly  *********************)
SeqVals == {0, 1, 2}

Methods == {"unbiased", "Unbiased", "mle", "MLE", "biased"}

\* the sequences given to yule_walker: vectors, and n x 2 matrices
YWVectors == UNION { { Vec(x) : x \in [1..n -> SeqVals] } : n \in 2..MaxSeq }

YWMatrices == { Mat([i \in 1..n |-> <<1, i>>]) : n \in 2..MaxSeq }

\* rho, sigma = yule_walker(X, order, method, df); df = 0 is df=None.  The
\* effective sample size exceeds the order, so that no denom(k) is zero.
YuleWalkerOf(X) ==
    /\ \E f64 \in BOOLEAN, order \in 1..MaxYWOrder, method \in Methods,
          df \in 0..MaxSeq :
         /\ (IF df # 0 THEN df ELSE NRows(X)) > order
         /\ LET yw == yule_walker(AsFloat(X), f64, order, method, df)
            IN  ret' = [op |-> "yule_walker", raised |-> yw.raised, exc |-> yw.exc,
                        arg |-> [X |-> X, f64 |-> f64, order |-> order,
                                 method |-> method, df |-> df],
                        val |-> yw]
    /\ UNCHANGED <<model, it, world>>

YuleWalkerCall ==
    /\ Ready
    /\ \/ \E X \in YWVectors : YuleWalkerOf(X)
       \/ \E X \in YWMatrices : YuleWalkerOf(X)

NextYW ==
    \/ YuleWalkerCall
    \/ Resume

SpecYW == Init /\ [][NextYW]_vars

(*******************  two AR models built by one caller  *******************)
PairRhoVals == {0, 1}

\* the designs the two models are built from: n x 1, n >= 2
PairDesigns ==
    UNION { { Mat([i \in 1..n |-> <<x[i]>>]) : x \in [1..n -> DesignVals] }
            : n \in 2..MaxPairRows }

\* the rho argument of a constructor call: an order, a list of coefficients,
\* or the caller's ndarray, which holds <<r>>
PairRhoArgs(r) ==
    { [int |-> TRUE, order |-> 1, v |-> <<>>, array |-> FALSE],
      [int |-> FALSE, order |-> 1, v |-> <<r>>, array |-> TRUE] }
    \cup { [int |-> FALSE, order |-> 1, v |-> <<c>>, array |-> FALSE]
           : c \in PairRhoVals }

\* the responses given to fit and iterative_fit
PairResponses(n) == { Vec([i \in 1..n |-> IF i = k THEN 1 ELSE 0]) : k \in 1..n }

\* The caller makes a design array (and, when oneDesign is false, a second
\* array of the same values) and a rho array holding <<r>>, then runs
\* A = ARModel(design, rhoA) and B = ARModel(design or design2, rhoB).
PairBuilt(D, oneDesign, r, rhoA, rhoB) ==
    LET w0 == [NoWorld EXCEPT
                  !.built = TRUE,
                  !.same = [design |-> oneDesign,
                            rho    |-> ~rhoA.int /\ rhoA.array
                                       /\ ~rhoB.int /\ rhoB.array],
                  !.heap[Caller("design")] = AsFloat(D),
                  !.heap[Caller("design2")] = AsFloat(D),
                  !.heap[Caller("rho")] = <<F(r)>>]
        designB == IF oneDesign THEN Caller("design") ELSE Caller("design2")
    IN  UNION { { b.w : b \in { o \in Heap_ARModel_init(a.w, "B", designB, rhoB,
                                                         Caller("rho"))
                                : ~o.raised } }
                : a \in { o \in Heap_ARModel_init(w0, "A", Caller("design"), rhoA,
                                                  Caller("rho"))
                          : ~o.raised } }

PairWorlds ==
    UNION { UNION { PairBuilt(D, oneDesign, r, rhoA, rhoB)
                    : rhoA \in PairRhoArgs(r), rhoB \in PairRhoArgs(r) }
            : D \in PairDesigns, oneDesign \in BOOLEAN, r \in PairRhoVals }

InitPair == model = NoModel /\ ret = NoRet /\ it = ItIdle /\ world \in PairWorlds

\* what a call on instance who returns to the caller, with the attributes of
\* both instances as they were when the call was made
PairRet(op, who, o, arg) ==
    [op |-> op, raised |-> o.raised, exc |-> o.exc,
     arg |-> [who |-> who, args |-> arg],
     val |-> [self |-> View(world, who), peer |-> View(world, Other(who))]]

\* who.rho = np.array([c])
PairSetRho ==
    /\ Ready
    /\ \E who \in Instances, c \in PairRhoVals :
         world' = Heap_SetRho(world, who, <<c>>)
    /\ UNCHANGED <<model, ret, it>>

\* who.initialize()
PairInitialize ==
    /\ Ready
    /\ \E who \in Instances :
         \E o \in Heap_initialize(world, who) :
            /\ world' = o.w
            /\ ret' = PairRet("initialize", who, o, <<>>)
    /\ UNCHANGED <<model, it>>

\* who.fit(Y)
PairFit ==
    /\ Ready
    /\ \E who \in Instances :
         \E Y \in PairResponses(NRows(Deref(world, who).exog)) :
            \E o \in Heap_fit(world, who, Y) :
               /\ world' = o.w
               /\ ret' = PairRet("fit", who, o, <<Y>>)
    /\ UNCHANGED <<model, it>>

\* who.iterative_fit(Y, niter)
PairIterativeFit ==
    /\ Ready
    /\ \E who \in Instances, niter \in 0..MaxIter :
         \E Y \in PairResponses(NRows(Deref(world, who).exog)) :
            \E o \in Heap_iterative_fit(world, who, Y, niter, 0) :
               /\ world' = o.w
               /\ ret' = PairRet("iterative_fit", who, o, <<Y, niter>>)
    /\ UNCHANGED <<model, it>>

NextPair ==
    \/ PairSetRho
    \/ PairInitialize
    \/ PairFit
    \/ PairIterativeFit
    \/ Resume

SpecPair == InitPair /\ [][NextPair]_vars

(********************************  claims  *********************************)
Min(a, b) == IF a < b THEN a ELSE b

RECURSIVE ISum(_)
ISum(s) == IF s = <<>> THEN 0 ELSE s[1] + ISum(Tail(s))

\* the exceptions that the data of a call can cause
NumericalFailures ==
    {"LinAlgError", "ZeroDivisionError", "ValueError: method", "ValueError: vector"}

IterEnded == it.pc \in {"returned", "raised"}

\* C1: iterative_fit(Y, niter) runs re-initialize, fit, Yule-Walker exactly
\* niter times (3 by default) and then returns, unless the data make an inner
\* step fail.
C1_RunsNiterIterations ==
    (IterEnded /\ it.exc \notin NumericalFailures)
        => /\ it.pc = "returned"
           /\ it.done = it.niter
           /\ it.inits = it.niter
           /\ it.fits = it.niter

\* C2: every iteration of iterative_fit recomputes the derived matrices from
\* the current rho before it fits, so that every fit of the loop uses a
\* whitened design and a whitened response of the same rho.
C2_ReinitializedBeforeFit ==
    it.pc # "idle" => (it.inits = it.entered /\ it.consistent)

\* C3: when iterative_fit has finished niter >= 1 iterations, the last
\* FitResult is held and rho is the Yule-Walker estimate of order p of the
\* response minus the last fit's predicted values.
C3_FinalResultAndRho ==
    (IterEnded /\ it.niter >= 1 /\ it.exc \notin NumericalFailures)
        => /\ it.pc = "returned"
           /\ it.results.has
           /\ model.rho = yule_walker(Residual(it.Y, it.results.lfit.predict),
                                      TRUE, model.order, "unbiased",
                                      model.df_resid).rho

\* C4: when an inner step of iterative_fit fails, the exception reaches the
\* caller with no retry and no further iteration, and rho is the value left by
\* the last completed iteration (the rho at the call if none completed).
C4_FailureAborts ==
    it.failures > 0
        => /\ it.pc = "raised"
           /\ it.exc # ""
           /\ it.failures = 1
           /\ it.entered = it.done + 1
           /\ model.rho = it.rho_done
           /\ (it.done = 0 => model.rho = it.rho0)

C4_Witness ==
    /\ it.pc = "raised"
    /\ it.failures = 1
    /\ it.done = 0
    /\ it.niter >= 2
    /\ model.rho = it.rho0

\* the row i of an array X, less rho_k times the row i - k for k = 1..min(i-1, p)
\* (rows counted from 1)
C5_Expected(rho, p, ndim, Xa, i) ==
    IF ndim = 1
    THEN FSub(Xa[i], FSum([k \in 1..Min(i - 1, p) |-> FMul(rho[k], Xa[i - k])]))
    ELSE [j \in 1..Len(Xa[i]) |->
            FSub(Xa[i][j], FSum([k \in 1..Min(i - 1, p) |-> FMul(rho[k], Xa[i - k][j])]))]

\* C5: ARModel.whiten returns W with W[i] = X[i] - sum over k = 1..min(i, p) of
\* rho_k * X[i-k], the lagged terms taken from the original X, and leaves X
\* unchanged.
C5_ARWhiten ==
    (ret.op = "whiten" /\ model.kind = "AR")
        => LET X == AsFloat(ret.arg)
               W == ret.val.val
           IN  /\ W.ndim = X.ndim
               /\ NRows(W) = NRows(X)
               /\ \A i \in 1..NRows(X) :
                    W.a[i] = C5_Expected(model.rho, model.order, X.ndim, X.a, i)
               /\ ret.val.X = X

C5_Witness ==
    /\ ret.op = "whiten"
    /\ model.kind = "AR"
    /\ model.order = 2
    /\ model.rho[1].n # 0
    /\ model.rho[2].n # 0
    /\ NRows(ret.arg) >= 4
    /\ ret.arg.ndim = 2
    /\ ret.val.val # AsFloat(ret.arg)

\* e is x times the square root of w: NaN for a negative w
C6_Scaled(e, x, w) ==
    IF w < 0 THEN IsNaN(e)
    ELSE /\ IsFinite(e)
         /\ FMul(e, e) = FMul(FMul(x, x), F(w))
         /\ Sign(e.n) = Sign(x.n) * Sign(w)

\* C6: WLSModel.whiten multiplies every row i of X by sqrt(w_i), for a vector
\* of weights and for a scalar weight, for a response and for a design matrix.
C6_WLSWhiten ==
    (ret.op = "whiten" /\ model.kind = "WLS")
        => LET X == AsFloat(ret.arg)
               W == ret.val.val
               w(i) == IF model.weights.scalar THEN model.weights.w[1]
                       ELSE model.weights.w[i]
           IN  /\ W.ndim = X.ndim
               /\ NRows(W) = NRows(X)
               /\ \A i \in 1..NRows(X) :
                    IF X.ndim = 1 THEN C6_Scaled(W.a[i], X.a[i], w(i))
                    ELSE /\ Len(W.a[i]) = Len(X.a[i])
                         /\ \A j \in 1..Len(X.a[i]) :
                               C6_Scaled(W.a[i][j], X.a[i][j], w(i))

C6_Witness ==
    /\ ret.op = "whiten"
    /\ model.kind = "WLS"
    /\ ~model.weights.scalar
    /\ \E i, j \in 1..Len(model.weights.w) :
          model.weights.w[i] = 1 /\ model.weights.w[j] = 4
    /\ ret.arg.ndim = 2
    /\ ret.val.val # AsFloat(ret.arg)

C7_Rows == Len(ret.arg.design.a)

C7_Shape == ret.arg.weights.shape

\* C7 as claimed: a WLS model is constructed only from a vector of as many
\* weights as design rows or from a nonnegative scalar; any other weights fail
\* with the dimension-mismatch error and no model is produced.
C7_OnlyVectorOrNonnegativeScalar ==
    ret.op = "WLSModel"
        => LET valid == \/ Len(C7_Shape) = 1 /\ C7_Shape[1] = C7_Rows
                        \/ C7_Shape = <<>> /\ ret.arg.weights.w[1] >= 0
           IN  /\ ~ret.raised => valid
               /\ ~valid => /\ ret.raised
                            /\ ret.exc = "ValueError: weights"
                            /\ ret.val.after = ret.val.before

\* C7: WLSModel.__init__ raises the dimension-mismatch ValueError, and no model
\* is produced, exactly when the weights are an array that is not a scalar and
\* whose first dimension or whose size differs from the number of design rows;
\* every scalar, a negative one too, passes the test, and a model that is
\* constructed holds the weights flattened.
C7_WeightsTest ==
    ret.op = "WLSModel"
        => LET size == IF Len(C7_Shape) = 0 THEN 1
                       ELSE IF Len(C7_Shape) = 1 THEN C7_Shape[1]
                       ELSE C7_Shape[1] * C7_Shape[2]
               passes == \/ Len(C7_Shape) = 0
                         \/ C7_Shape[1] = C7_Rows /\ size = C7_Rows
           IN  /\ (ret.exc = "ValueError: weights") <=> ~passes
               /\ (ret.exc = "ValueError: weights")
                     => ret.raised /\ ret.val.after = ret.val.before
               /\ ~ret.raised
                     => /\ model.kind = "WLS"
                        /\ model.weights.scalar = (Len(C7_Shape) = 0)
                        /\ model.weights.w = ret.arg.weights.w
                        /\ model.exog = AsFloat(ret.arg.design)

C7_Witness ==
    /\ ret.op = "WLSModel"
    /\ ~ret.raised
    /\ C7_Shape = <<>>
    /\ ret.arg.weights.w[1] < 0
    /\ model.kind = "WLS"
    /\ model.weights.w[1] < 0

\* C8 as claimed: yule_walker accepts exactly the method names 'unbiased' and
\* 'biased', and fails with an invalid-argument error, computing no estimate,
\* on any other name.
C8_UnbiasedAndBiased ==
    ret.op = "yule_walker"
        => IF ret.arg.method \in {"unbiased", "biased"}
           THEN ret.exc # "ValueError: method"
           ELSE ret.exc = "ValueError: method" /\ ~ret.val.est

\* the sum of the products at lag k of the sequence x less its mean, times
\* Len(x)^2
C8_LagSum(x, k) ==
    LET L == Len(x)
        T == ISum(x)
    IN  ISum([i \in 1..(L - k) |-> (L * x[i] - T) * (L * x[i + k] - T)])

\* C8: yule_walker accepts exactly the method names that are 'unbiased' or
\* 'mle' in lower case ('biased' is refused); with any other name it raises
\* ValueError and computes no estimate; an estimate it computes divides the
\* lag-k sum by n - k for 'unbiased' and by n for 'mle', n being df when a
\* nonzero df is given and the length of the sequence otherwise.
C8_UnbiasedAndMle ==
    ret.op = "yule_walker"
        => LET a == ret.arg
               n == IF a.df # 0 THEN a.df ELSE Len(a.X.a)
               L == Len(a.X.a)
           IN  /\ (ret.exc # "ValueError: method")
                     <=> a.method \in {"unbiased", "Unbiased", "mle", "MLE"}
               /\ (ret.exc = "ValueError: method")
                     => ret.raised /\ ~ret.val.est /\ ret.val.rho = <<>>
               /\ ret.val.est
                     => \A k \in 0..a.order :
                          ret.val.r[k + 1] =
                             Frac(C8_LagSum(a.X.a, k),
                                  L * L * (IF a.method \in {"unbiased", "Unbiased"}
                                           THEN n - k ELSE n))

C8_Witness ==
    /\ ret.op = "yule_walker"
    /\ ret.arg.method = "mle"
    /\ ret.arg.order = 2
    /\ ret.val.est
    /\ ret.val.r[2].n # 0

\* C9: when r_0 - sum_k rho_k * r_k is negative, yule_walker fails before the
\* square root and returns no (rho, sigma).
C9_NegativeVarianceFails ==
    (ret.op = "yule_walker" /\ ret.val.est /\ ret.val.sigmasq.n < 0)
        => ret.raised

\* C10: fit on a model whose residual degrees of freedom are <= 0 fails and
\* returns no FitResult, and does not divide the sum of squared residuals by
\* the residual degrees of freedom.
C10_DegenerateFitFails ==
    (ret.op = "fit" /\ model.df_resid <= 0)
        => ret.raised /\ IsFinite(ret.val.scale)

\* C11: a fit, a re-initialization or an iterative_fit called on one of two AR
\* models, also two built from the same design array and the same rho array,
\* leaves the other model's rho, whitened design, pseudo-inverse and
\* normalized covariance as they were when the call was made.
C11_PeerUnchanged ==
    (world.built /\ ret.op \in {"fit", "initialize", "iterative_fit"})
        => View(world, Other(ret.arg.who)) = ret.val.peer

\* A and B built from one design array and one rho array; A, given another
\* rho since, has been re-initialized and its whitened design has changed
C11_Witness ==
    /\ world.built
    /\ world.same.design
    /\ world.same.rho
    /\ world.B.rho = Caller("rho")
    /\ ret.op = "initialize"
    /\ ret.arg.who = "A"
    /\ View(world, "A").wdesign # ret.val.self.wdesign

\* C12: after yule_walker(X, ...) has returned or failed, the caller's X holds
\* the values it held before the call, also when X was already an array of
\* 64-bit floats.
C12_InputUnchanged ==
    (ret.op = "yule_walker") => ret.val.callerX = AsFloat(ret.arg.X)

====
